---- MODULE Spec2Model ----
(***************************************************************************)
(* Model of the youtube_studio_analytics Home Assistant integration:       *)
(*   - api.py          the metrics client (YouTubeAnalyticsAPI)            *)
(*   - coordinator.py  the polling coordinator                             *)
(*   - sensor.py       the sensor entities' value accessor                 *)
(*   - config_flow.py  the onboarding / reauthentication flow              *)
(*                                                                         *)
(* Python dictionaries are functions over a set of string keys.  Python    *)
(* values are tagged records (IntV, StrV, NumStrV, DecV, NoneV) so that    *)
(* values of different Python types can be compared.                       *)
(***************************************************************************)
EXTENDS Integers, Sequences, FiniteSets, TLC

(***************************************************************************)
(* Bounds of the model.                                                    *)
(***************************************************************************)
MaxTicks == 2
MaxMinutes == 2
MaxCount == 1
MaxShortRow == 2
MaxFlows == 2
MaxAuthorize == 2

(***************************************************************************)
(* Python values.                                                          *)
(***************************************************************************)
IntV(n) == [int |-> n]
StrV(s) == [str |-> s]
\* a decimal string as the Data API returns its counters ("12")
NumStrV(n) == [numstr |-> n]
\* a float with two decimals, held as a number of hundredths
DecV(h) == [hundredths |-> h]
NoneV == [none |-> TRUE]

IsInt(v) == DOMAIN v = {"int"}
IsNone(v) == DOMAIN v = {"none"}

EmptyMap == [k \in {} |-> NoneV]
Put(m, k, v) == [j \in (DOMAIN m) \cup {k} |-> IF j = k THEN v ELSE m[j]]
Get(m, k, default) == IF k \in DOMAIN m THEN m[k] ELSE default

SeqToSet(s) == {s[i] : i \in DOMAIN s}

(***************************************************************************)
(* const.py                                                                *)
(***************************************************************************)
DEFAULT_UPDATE_INTERVAL == 3600

METRICS_30D ==
    << "views_30d", "averageViewDuration_30d", "averageViewPercentage_30d",
       "likes_30d", "dislikes_30d", "comments_30d", "shares_30d",
       "subscribersGained_30d", "subscribersLost_30d", "annotationClicks_30d",
       "annotationClickThroughRate_30d", "estimatedMinutesWatched_30d" >>

METRICS_LIFETIME ==
    << "subscriber_count_lifetime", "video_count_lifetime", "view_count_lifetime" >>

METRICS_RECENT_VIDEOS ==
    << "recent_videos_count_10vids", "recent_videos_total_views_10vids",
       "recent_videos_total_likes_10vids", "recent_videos_total_comments_10vids" >>

(***************************************************************************)
(* What the two Google API calls of one poll can come back with.           *)
(*   RefreshError  creds.refresh failed in _get_credentials                *)
(*   HttpError     execute() raised HttpError with err.resp.status         *)
(*   Exception     any other exception                                     *)
(*   response      execute() returned a response body                      *)
(***************************************************************************)
HttpStatuses == {401, 403, 500}

FailedCalls ==
    {[kind |-> "RefreshError"], [kind |-> "Exception"]}
        \cup {[kind |-> "HttpError", status |-> st] : st \in HttpStatuses}

\* str(err) of the exception a failed call raised
ErrStr(call) ==
    CASE call.kind = "RefreshError" -> StrV("RefreshError: invalid_grant")
      [] call.kind = "Exception" -> StrV("Exception: connection reset")
      [] call.kind = "HttpError" /\ call.status = 401 -> StrV("<HttpError 401>")
      [] call.kind = "HttpError" /\ call.status = 403 -> StrV("<HttpError 403>")
      [] call.kind = "HttpError" /\ call.status = 500 -> StrV("<HttpError 500>")
      [] OTHER -> StrV("<HttpError>")

\* an error classification that takes every HTTP 4xx for an authentication failure
ClientError_4xx_auth(call) ==
    IF call.kind = "RefreshError"
        \/ (call.kind = "HttpError" /\ call.status >= 400 /\ call.status < 500)
    THEN Put(Put(EmptyMap, "error", StrV("auth_failed")), "error_detail", ErrStr(call))
    ELSE Put(EmptyMap, "error", ErrStr(call))

\* except RefreshError / except HttpError / except Exception of both client reads
ClientError(call) ==
    IF call.kind = "RefreshError"
        \/ (call.kind = "HttpError" /\ call.status = 401)
    THEN Put(Put(EmptyMap, "error", StrV("auth_failed")), "error_detail", ErrStr(call))
    ELSE Put(EmptyMap, "error", ErrStr(call))

(***************************************************************************)
(* api.py: async_get_analytics_metrics                                     *)
(***************************************************************************)
\* f"metric_{i}" for the 0-based column index i
MetricIndexName(i) ==
    CASE i = 0 -> "metric_0"
      [] i = 1 -> "metric_1"
      [] OTHER -> "metric_n"

\* the loop over enumerate(column_headers); n columns processed so far
RECURSIVE ParseColumns(_, _, _)
ParseColumns(headers, row, n) ==
    IF n = 0 THEN EmptyMap
    ELSE LET i == n - 1
             header == headers[n]
             metric_name == IF "name" \in DOMAIN header
                            THEN header.name ELSE MetricIndexName(i)
             value == IF i < Len(row) THEN row[i + 1] ELSE NoneV
         IN Put(ParseColumns(headers, row, n - 1), metric_name, value)

\* a parse that names the values after the requested metrics, by position
async_get_analytics_metrics_by_request(call) ==
    IF call.kind # "response" THEN ClientError(call)
    ELSE IF "rows" \in DOMAIN call.body /\ Len(call.body.rows) > 0
         THEN LET data == call.body.rows[1]
                  column_headers == [i \in 1 .. Len(METRICS_30D) |-> [name |-> METRICS_30D[i]]]
              IN ParseColumns(column_headers, data, Len(column_headers))
         ELSE Put(EmptyMap, "error", StrV("No data returned from YouTube Analytics"))

async_get_analytics_metrics(call) ==
    IF call.kind # "response" THEN ClientError(call)
    ELSE IF "rows" \in DOMAIN call.body /\ Len(call.body.rows) > 0
         THEN LET data == call.body.rows[1]
                  column_headers == Get(call.body, "columnHeaders", <<>>)
              IN ParseColumns(column_headers, data, Len(column_headers))
         ELSE Put(EmptyMap, "error", StrV("No data returned from YouTube Analytics"))

(***************************************************************************)
(* api.py: async_get_channel_statistics                                    *)
(***************************************************************************)
\* int(stats.get(field, 0)): raises ValueError on a non-numeric string
IntParses(v) == DOMAIN v \in {{"int"}, {"numstr"}}
IntOf(v) == IF DOMAIN v = {"numstr"} THEN IntV(v.numstr) ELSE v

\* a statistics read whose int() conversion error escapes the read
async_get_channel_statistics_int_escapes(call) ==
    IF call.kind # "response" THEN ClientError(call)
    ELSE IF "items" \in DOMAIN call.body /\ Len(call.body.items) > 0
         THEN LET channel == call.body.items[1]
                  stats == Get(channel, "statistics", EmptyMap)
                  snippet == Get(channel, "snippet", EmptyMap)
                  subs == Get(stats, "subscriberCount", IntV(0))
                  vids == Get(stats, "videoCount", IntV(0))
                  views == Get(stats, "viewCount", IntV(0))
              IN IF IntParses(subs) /\ IntParses(vids) /\ IntParses(views)
                 THEN [channel_title |-> Get(snippet, "title", StrV("Unknown")),
                       subscriber_count |-> IntOf(subs),
                       video_count |-> IntOf(vids),
                       view_count |-> IntOf(views),
                       hidden_subscriber_count |->
                           Get(stats, "hiddenSubscriberCount", [bool |-> FALSE])]
                 ELSE [raised |-> StrV("ValueError: invalid literal for int()")]
         ELSE Put(EmptyMap, "error", StrV("Channel not found"))

async_get_channel_statistics(call) ==
    IF call.kind # "response" THEN ClientError(call)
    ELSE IF "items" \in DOMAIN call.body /\ Len(call.body.items) > 0
         THEN LET channel == call.body.items[1]
                  stats == Get(channel, "statistics", EmptyMap)
                  snippet == Get(channel, "snippet", EmptyMap)
                  subs == Get(stats, "subscriberCount", IntV(0))
                  vids == Get(stats, "videoCount", IntV(0))
                  views == Get(stats, "viewCount", IntV(0))
              IN IF IntParses(subs) /\ IntParses(vids) /\ IntParses(views)
                 THEN [channel_title |-> Get(snippet, "title", StrV("Unknown")),
                       subscriber_count |-> IntOf(subs),
                       video_count |-> IntOf(vids),
                       view_count |-> IntOf(views),
                       hidden_subscriber_count |->
                           Get(stats, "hiddenSubscriberCount", [bool |-> FALSE])]
                 ELSE Put(EmptyMap, "error", StrV("invalid literal for int()"))
         ELSE Put(EmptyMap, "error", StrV("Channel not found"))

(***************************************************************************)
(* api.py: async_get_all_metrics                                           *)
(***************************************************************************)
\* datetime.now().isoformat() at clock reading t
IsoFormat(t) == [isoformat |-> t]

\* for key, value in analytics_30d.items(): if key != "error": result[key] = value
CopyKeys(result, src) ==
    [j \in (DOMAIN result) \cup ((DOMAIN src) \ {"error"}) |->
        IF j \in (DOMAIN src) \ {"error"} THEN src[j] ELSE result[j]]

Merge30d(result, analytics_30d) ==
    IF "error" \in DOMAIN analytics_30d
    THEN Put(result, "error_30d", analytics_30d["error"])
    ELSE CopyKeys(result, analytics_30d)

\* a merge that fills the lifetime counters with defaults next to the error
MergeLifetime_defaults_on_error(result, channel_stats) ==
    LET r0 == IF "error" \in DOMAIN channel_stats
              THEN Put(result, "error_lifetime", channel_stats["error"])
              ELSE result
        r1 == Put(r0, "subscriber_count",
                  Get(channel_stats, "subscriber_count", IntV(0)))
        r2 == Put(r1, "video_count", Get(channel_stats, "video_count", IntV(0)))
        r3 == Put(r2, "view_count", Get(channel_stats, "view_count", IntV(0)))
    IN Put(r3, "channel_title", Get(channel_stats, "channel_title", StrV("Unknown")))

MergeLifetime(result, channel_stats) ==
    IF "error" \in DOMAIN channel_stats
    THEN Put(result, "error_lifetime", channel_stats["error"])
    ELSE LET r1 == Put(result, "subscriber_count",
                       Get(channel_stats, "subscriber_count", IntV(0)))
             r2 == Put(r1, "video_count", Get(channel_stats, "video_count", IntV(0)))
             r3 == Put(r2, "view_count", Get(channel_stats, "view_count", IntV(0)))
         IN Put(r3, "channel_title",
                Get(channel_stats, "channel_title", StrV("Unknown")))

\* Both client reads catch every Exception, so the except branch of
\* async_get_all_metrics (result["error"] = str(err)) is never entered.
async_get_all_metrics(call_30d, call_stats, t) ==
    LET analytics_30d == async_get_analytics_metrics(call_30d)
        r1 == Merge30d(EmptyMap, analytics_30d)
        channel_stats == async_get_channel_statistics(call_stats)
        r2 == MergeLifetime(r1, channel_stats)
    IN Put(r2, "last_updated", IsoFormat(t))

(***************************************************************************)
(* api.py: the credentials and service objects behind the two reads.       *)
(*   Every step a read takes towards Google is an event                    *)
(*   [op, api, call, token]: the token refresh with the refresh token it   *)
(*   presents, the build of a service object and the query, both with the  *)
(*   access token they carry.                                              *)
(***************************************************************************)
\* entry.data as async_setup_entry hands it to the client
StoredRefreshToken == StrV("1//entry-refresh")
StoredAccessToken == StrV("ya29.entry-access")
StoredTokenExpiry == IsoFormat(0)

\* the client credential of the application-credential registry, and the
\* lookup async_import_client_credential(hass, DOMAIN) as the code uses it:
\* the credential when one is registered, None otherwise
RegisteredCredential ==
    [client_id |-> StrV("app.apps.googleusercontent.com"),
     client_secret |-> StrV("app-secret")]

async_import_client_credential(registered) ==
    IF registered THEN RegisteredCredential ELSE NoneV

\* __init__: access_token and token_expiry are accepted and not kept
YouTubeAnalyticsAPI(refresh_token, client_id, client_secret, access_token, token_expiry) ==
    [_refresh_token |-> refresh_token, _client_id |-> client_id,
     _client_secret |-> client_secret]

\* the access token the token endpoint issues for the refresh of read c at tick t
FreshToken(refresh_token, t, c) == [access |-> <<refresh_token, t, c>>]

\* credentials that reuse the access token of the config entry without a refresh
_get_credentials_cached(self, call, t, c) ==
    [raised |-> FALSE, token |-> StoredAccessToken, ops |-> <<>>]

\* Credentials(token=None, refresh_token=...) and creds.refresh(Request())
_get_credentials(self, call, t, c) ==
    LET refresh == [op |-> "refresh", api |-> "oauth2", call |-> c,
                    token |-> self._refresh_token]
    IN IF call.kind = "RefreshError"
       THEN [raised |-> TRUE, token |-> NoneV, ops |-> <<refresh>>]
       ELSE [raised |-> FALSE, token |-> FreshToken(self._refresh_token, t, c),
             ops |-> <<refresh>>]

_get_analytics_service(self, call, t, c) ==
    LET creds == _get_credentials(self, call, t, c)
    IN IF creds.raised THEN creds
       ELSE [creds EXCEPT !.ops = Append(@, [op |-> "build", api |-> "youtubeAnalytics",
                                             call |-> c, token |-> creds.token])]

_get_data_service(self, call, t, c) ==
    LET creds == _get_credentials(self, call, t, c)
    IN IF creds.raised THEN creds
       ELSE [creds EXCEPT !.ops = Append(@, [op |-> "build", api |-> "youtube",
                                             call |-> c, token |-> creds.token])]

\* service.reports().query(...).execute() of async_get_analytics_metrics
async_get_analytics_metrics_ops(self, call, t) ==
    LET service == _get_analytics_service(self, call, t, "30d")
    IN IF service.raised THEN service.ops
       ELSE Append(service.ops, [op |-> "query", api |-> "youtubeAnalytics",
                                 call |-> "30d", token |-> service.token])

\* service.channels().list(...).execute() of async_get_channel_statistics
async_get_channel_statistics_ops(self, call, t) ==
    LET service == _get_data_service(self, call, t, "lifetime")
    IN IF service.raised THEN service.ops
       ELSE Append(service.ops, [op |-> "query", api |-> "youtube",
                                 call |-> "lifetime", token |-> service.token])

\* the events of one async_get_all_metrics; a read not begun has kind "none"
async_get_all_metrics_ops(self, call_30d, call_stats, t) ==
    (IF call_30d.kind = "none" THEN <<>>
     ELSE async_get_analytics_metrics_ops(self, call_30d, t))
      \o (IF call_stats.kind = "none" THEN <<>>
          ELSE async_get_channel_statistics_ops(self, call_stats, t))

(***************************************************************************)
(* coordinator.py: _async_update_data                                      *)
(*   the value returned or the exception raised, given what                *)
(*   async_get_all_metrics returned within the 30 s timeout                *)
(***************************************************************************)
Falsy(d) == IsNone(d) \/ DOMAIN d = {}

_async_update_data(data) ==
    IF "error" \in DOMAIN data
    THEN IF data["error"] = StrV("auth_failed")
         THEN [raised |-> "ConfigEntryAuthFailed", value |-> NoneV]
         ELSE [raised |-> "UpdateFailed", value |-> NoneV]
    ELSE IF Falsy(data)
         THEN [raised |-> "UpdateFailed", value |-> NoneV]
         ELSE [raised |-> "none", value |-> data]

\* a timeout whose TimeoutError leaves _async_update_data uncaught
_async_update_data_timeout_uncaught == [raised |-> "TimeoutError", value |-> NoneV]

\* async_timeout.timeout(30) expired: TimeoutError reaches "except Exception"
_async_update_data_timeout == [raised |-> "UpdateFailed", value |-> NoneV]

(***************************************************************************)
(* sensor.py                                                               *)
(***************************************************************************)
\* the metric keys async_setup_entry creates one sensor for
SensorKeys ==
    SeqToSet(METRICS_30D) \cup SeqToSet(METRICS_LIFETIME)
        \cup SeqToSet(METRICS_RECENT_VIDEOS)

\* Round2 that truncates instead of rounding to the nearest hundredth
Round2_truncate(num, den) == (num * 100) \div den

\* round(num / den, 2) of Python (round half to even), in hundredths
Round2(num, den) ==
    LET q == (num * 100) \div den
        r == (num * 100) % den
    IN IF 2 * r < den THEN q
       ELSE IF 2 * r > den THEN q + 1
       ELSE IF q % 2 = 0 THEN q ELSE q + 1

\* native_value that reads a missing key as 0: data.get(key, 0)
native_value_default0(data, metric_key) ==
    IF Falsy(data) THEN NoneV
    ELSE LET value == Get(data, metric_key, IntV(0))
         IN IF metric_key = "estimatedMinutesWatched_30d" /\ ~IsNone(value)
            THEN DecV(Round2(value.int, 60))
            ELSE value

native_value(data, metric_key) ==
    IF Falsy(data) THEN NoneV
    ELSE LET value == Get(data, metric_key, NoneV)
         IN IF metric_key = "estimatedMinutesWatched_30d" /\ ~IsNone(value)
            THEN DecV(Round2(value.int, 60))
            ELSE value

\* f"{channel_id}_{metric_key}": the parts of the formatted string, in order
UniqueIdOf(channel_id, metric_key) == [fstring |-> <<channel_id, "_", metric_key>>]

\* "_lifetime" in metric_key / "_10vids" in metric_key; of the keys of
\* const.py these substrings occur in exactly the keys listed
Contains_lifetime(metric_key) ==
    metric_key \in {"subscriber_count_lifetime", "video_count_lifetime",
                    "view_count_lifetime"}

Contains_10vids(metric_key) ==
    metric_key \in {"recent_videos_count_10vids", "recent_videos_total_views_10vids",
                    "recent_videos_total_likes_10vids",
                    "recent_videos_total_comments_10vids"}

\* YouTubeAnalyticsSensor.__init__.  The second "else:" (line 180) is read as
\* the else of the if/elif on the suffix, with lines 181-182 as its body: the
\* unique id is assigned for 30-day keys and for keys with neither suffix, and
\* keeps the entity default None otherwise.
YouTubeAnalyticsSensor(channel_id, channel_title, metric_key, is_30d) ==
    [metric_key |-> metric_key, is_30d |-> is_30d,
     name_suffix |-> IF is_30d THEN "(30 days)"
                     ELSE IF Contains_lifetime(metric_key) THEN "(Lifetime)"
                     ELSE IF Contains_10vids(metric_key) THEN "(Last 10 Videos)"
                     ELSE "",
     unique_id |-> IF is_30d \/ ~(Contains_lifetime(metric_key) \/ Contains_10vids(metric_key))
                   THEN UniqueIdOf(channel_id, metric_key)
                   ELSE NoneV]

\* sensor.py async_setup_entry: the entities handed to async_add_entities;
\* hass.data[DOMAIN][entry.entry_id] raises KeyError when no record is stored
sensor_async_setup_entry(domain_data, entry_id, entry) ==
    IF entry_id \notin DOMAIN domain_data
    THEN [raised |-> "KeyError", entities |-> <<>>]
    ELSE LET channel_id == entry.data["channel_id"]
             channel_title == Get(entry.data, "channel_title", StrV("YouTube Channel"))
             New(metrics, is_30d) ==
                 [i \in 1 .. Len(metrics) |->
                     YouTubeAnalyticsSensor(channel_id, channel_title, metrics[i], is_30d)]
         IN [raised |-> "none",
             entities |-> New(METRICS_30D, TRUE) \o New(METRICS_LIFETIME, FALSE)
                             \o New(METRICS_RECENT_VIDEOS, FALSE)]

(***************************************************************************)
(* State.                                                                  *)
(***************************************************************************)
VARIABLES
    tick,                 \* the clock: number of poll ticks so far
    coordinator_data,     \* coordinator.data: NoneV or the latest snapshot
    last_update_success,  \* coordinator.last_update_success
    last_poll,            \* the calls, merged result and outcome of the last tick
    states,               \* per sensor, the state last written for it
    entries,              \* the config entries of the domain, in creation order
    credential,           \* an application credential is registered
    flows,                \* the config flows in progress or just finished
    oauth_flow_states,    \* the keys oauth_flow_<state> of hass.data[DOMAIN]
    authorized,           \* number of authorize URLs generated so far
    hass_data,            \* hass.data[DOMAIN]: per set-up entry, its record
    entry_state,          \* per config entry, its ConfigEntryState
    sensors               \* per config entry with a sensor platform, its entities

poll_vars == <<tick, coordinator_data, last_update_success, last_poll, states>>

flow_vars == <<entries, credential, flows, oauth_flow_states, authorized>>

setup_vars == <<hass_data, entry_state, sensors>>

vars == <<poll_vars, flow_vars, setup_vars>>

(***************************************************************************)
(* The responses the two APIs are drawn from.                              *)
(***************************************************************************)
MinuteVals == (0 .. MaxMinutes) \cup {120}
MinuteCells == {IntV(m) : m \in MinuteVals}
CellValues == {IntV(0), IntV(120), NoneV}

Header(name) == [name |-> name, columnType |-> "METRIC"]

\* the report echoes every requested metric name
EchoHeaders == [i \in 1 .. Len(METRICS_30D) |-> Header(METRICS_30D[i])]

WatchHeaders == <<Header("estimatedMinutesWatched_30d")>>

HeaderChoices ==
    { EchoHeaders,
      <<Header("views_30d"), Header("estimatedMinutesWatched_30d")>>,
      WatchHeaders,
      <<Header("views")>>,
      <<[columnType |-> "METRIC"]>>,
      <<>> }

\* rows no longer than the headers; short header lists get every row
RowChoices(h) ==
    IF h = WatchHeaders
    THEN {<<>>, <<NoneV>>} \cup {<<c>> : c \in MinuteCells}
    ELSE IF Len(h) <= MaxShortRow
    THEN UNION {[1 .. L -> CellValues] : L \in 0 .. Len(h)}
    ELSE {[i \in 1 .. L |-> v] : L \in {Len(h) - 1, Len(h)}, v \in CellValues}

AnalyticsBodies ==
    UNION {{[rows |-> <<row>>, columnHeaders |-> h] : row \in RowChoices(h)} :
              h \in HeaderChoices}
      \cup {[rows |-> <<>>, columnHeaders |-> <<>>]}
      \cup {[kind |-> "youtubeAnalytics#resultTable"]}
      \cup {[rows |-> << <<IntV(0)>> >>]}

AnalyticsCalls ==
    FailedCalls \cup {[kind |-> "response", body |-> b] : b \in AnalyticsBodies}

Counts == 0 .. MaxCount

StatisticsParts ==
    {[subscriberCount |-> NumStrV(a), videoCount |-> NumStrV(MaxCount),
      viewCount |-> NumStrV(a + 1), hiddenSubscriberCount |-> [bool |-> FALSE]] :
        a \in Counts}
      \cup {[videoCount |-> NumStrV(MaxCount)]}
      \cup {[subscriberCount |-> StrV("n/a"), videoCount |-> NumStrV(0),
             viewCount |-> NumStrV(0)]}

ChannelItems ==
    {[statistics |-> st, snippet |-> [title |-> StrV("My Channel")]] :
        st \in StatisticsParts}
      \cup {[snippet |-> [title |-> StrV("My Channel")]]}
      \cup {[statistics |-> [subscriberCount |-> NumStrV(MaxCount)]]}

StatsBodies ==
    {[items |-> <<c>>] : c \in ChannelItems}
      \cup {[items |-> <<>>], [kind |-> "youtube#channelListResponse"]}

StatsCalls ==
    FailedCalls \cup {[kind |-> "response", body |-> b] : b \in StatsBodies}

(***************************************************************************)
(* The polling layer.                                                      *)
(***************************************************************************)
NoCall == [kind |-> "none"]
UnavailableV == [unavailable |-> TRUE]

NoPoll ==
    [call_30d |-> NoCall, call_stats |-> NoCall, timed_out |-> FALSE,
     merged |-> NoneV, result |-> [raised |-> "none", value |-> NoneV],
     ops |-> <<>>]

\* the client async_setup_entry builds from entry.data
api_client ==
    YouTubeAnalyticsAPI(StoredRefreshToken, RegisteredCredential.client_id,
                        RegisteredCredential.client_secret, StoredAccessToken,
                        StoredTokenExpiry)

InitPoll ==
    /\ tick = 0
    /\ coordinator_data = NoneV
    /\ last_update_success = TRUE
    /\ last_poll = NoPoll
    /\ states = [k \in SensorKeys |-> native_value(NoneV, k)]

\* a refresh that forgets the previous data when the update raises
Refresh_drop_on_failure(res) ==
    IF res.raised = "none"
    THEN /\ coordinator_data' = res.value
         /\ last_update_success' = TRUE
         /\ states' = [k \in SensorKeys |-> native_value(res.value, k)]
    ELSE /\ coordinator_data' = NoneV
         /\ last_update_success' = FALSE
         /\ states' = [k \in SensorKeys |-> UnavailableV]

\* DataUpdateCoordinator refresh: a returned mapping becomes coordinator.data
\* and every sensor re-reads its value; a raised signal keeps the old data
Refresh(res) ==
    IF res.raised = "none"
    THEN /\ coordinator_data' = res.value
         /\ last_update_success' = TRUE
         /\ states' = [k \in SensorKeys |-> native_value(res.value, k)]
    ELSE /\ coordinator_data' = coordinator_data
         /\ last_update_success' = FALSE
         /\ states' = [k \in SensorKeys |-> UnavailableV]

\* one tick in which async_get_all_metrics returns within the timeout
PollTick(call_30d, call_stats) ==
    /\ tick < MaxTicks
    /\ tick' = tick + 1
    /\ LET merged == async_get_all_metrics(call_30d, call_stats, tick + 1)
           res == _async_update_data(merged)
       IN /\ last_poll' = [call_30d |-> call_30d, call_stats |-> call_stats,
                           timed_out |-> FALSE, merged |-> merged, result |-> res,
                           ops |-> async_get_all_metrics_ops(api_client, call_30d,
                                                             call_stats, tick + 1)]
          /\ Refresh(res)
    /\ UNCHANGED <<flow_vars, setup_vars>>

\* what the reads in flight at the timeout come back with afterwards; the
\* channel read has kind "none" when the timeout falls in the analytics read
LateCalls30d ==
    {[kind |-> "RefreshError"],
     [kind |-> "response",
      body |-> [rows |-> <<[i \in 1 .. Len(EchoHeaders) |-> IntV(120)]>>,
                columnHeaders |-> EchoHeaders]]}

LateCallsStats ==
    {NoCall,
     [kind |-> "response",
      body |-> [items |-> <<[statistics |-> [subscriberCount |-> NumStrV(MaxCount),
                                              videoCount |-> NumStrV(MaxCount),
                                              viewCount |-> NumStrV(MaxCount)],
                             snippet |-> [title |-> StrV("My Channel")]]>>]]}

\* one tick in which the 30 s timeout expires first: the context manager
\* cancels async_get_all_metrics, whose result never reaches the coordinator
PollTimeout(call_30d, call_stats) ==
    /\ tick < MaxTicks
    /\ tick' = tick + 1
    /\ last_poll' = [call_30d |-> call_30d, call_stats |-> call_stats,
                     timed_out |-> TRUE, merged |-> NoneV,
                     result |-> _async_update_data_timeout,
                     ops |-> async_get_all_metrics_ops(api_client, call_30d,
                                                       call_stats, tick + 1)]
    /\ Refresh(_async_update_data_timeout)
    /\ UNCHANGED <<flow_vars, setup_vars>>

NextPoll ==
    \/ \E a \in AnalyticsCalls, s \in StatsCalls : PollTick(a, s)
    \/ \E a \in LateCalls30d, s \in LateCallsStats : PollTimeout(a, s)

(***************************************************************************)
(* config_flow.py: text as the user types it, a sequence of characters.    *)
(***************************************************************************)
TextV(s) == [text |-> s]

Repeat(c, n) == [i \in 1 .. n |-> c]

\* a well-formed channel id: "UC" and 22 more characters
UC(c) == <<"U", "C">> \o Repeat(c, 22)
ChanA == UC("a")
ChanB == UC("b")

RECURSIVE LStrip(_)
LStrip(s) == IF s # <<>> /\ Head(s) = " " THEN LStrip(Tail(s)) ELSE s

RECURSIVE RStrip(_)
RStrip(s) ==
    IF s # <<>> /\ s[Len(s)] = " " THEN RStrip(SubSeq(s, 1, Len(s) - 1)) ELSE s

\* str.strip()
Strip(s) == RStrip(LStrip(s))

\* str.startswith(p)
StartsWith(s, p) == Len(s) >= Len(p) /\ SubSeq(s, 1, Len(p)) = p

\* what the user may type into the channel_id field
ChannelInputs ==
    { <<>>, <<" ">>, <<" ">> \o ChanA \o <<" ">>, ChanB,
      <<"X", "X">> \o Repeat("a", 22), UC("a") \o <<"a">> }

(***************************************************************************)
(* config_flow.py: the flow handler and its results.                       *)
(* The file indents a few statements inconsistently (a "try:" followed by  *)
(* a statement in the same column); the handlers are read in the nesting   *)
(* that the order of their statements and returns implies.                 *)
(***************************************************************************)
FlowIds == 1 .. MaxFlows

NoResult == [type |-> "none", step_id |-> "", reason |-> "", errors |-> EmptyMap]

\* YouTubeOAuth2FlowHandler.__init__
NoFlow ==
    [source |-> "none", step |-> "none", result |-> NoResult,
     channel_id |-> NoneV, unique_id |-> NoneV, reauth_entry |-> 0,
     oauth_entered |-> FALSE, oauth_acct |-> "none"]

\* the slot holds no flow in progress
Free(flow) == flow.step \in {"none", "done"}

\* a new flow takes the lowest slot that holds no flow in progress
NextFree(f) == Free(flows[f]) /\ \A g \in 1 .. f - 1 : ~Free(flows[g])

async_abort(flow, reason) ==
    [flow EXCEPT !.step = "done",
                 !.result = [type |-> "abort", step_id |-> "", reason |-> reason,
                             errors |-> EmptyMap]]

async_show_form(flow, step_id, errors) ==
    [flow EXCEPT !.step = step_id,
                 !.result = [type |-> "form", step_id |-> step_id, reason |-> "",
                             errors |-> errors]]

\* an unhandled exception leaves the flow at its step
Raised(flow, what) ==
    [flow EXCEPT !.result = [type |-> "exception", step_id |-> flow.step,
                             reason |-> what, errors |-> EmptyMap]]

\* AbstractOAuth2FlowHandler.async_step_pick_implementation / async_step_auth:
\* with a registered credential the flow enters the external OAuth step
async_step_pick_implementation(flow) ==
    IF ~credential THEN async_abort(flow, "missing_credentials")
    ELSE [flow EXCEPT !.step = "auth", !.oauth_entered = TRUE,
                      !.result = [type |-> "external", step_id |-> "auth",
                                  reason |-> "", errors |-> EmptyMap]]

\* application_credentials.py: async_generate_authorize_url stores the Flow
\* object under oauth_flow_<state>
async_generate_authorize_url(st) == oauth_flow_states \cup {st}

\* a channel step that stores the typed id before it validates it
async_step_channel_entry_store_first(flow, user_input) ==
    IF IsNone(user_input) THEN async_show_form(flow, "channel_entry", EmptyMap)
    ELSE LET channel_id == Strip(Get(user_input, "channel_id", TextV(<<>>)).text)
             stored == [flow EXCEPT !.channel_id = TextV(channel_id)]
         IN IF channel_id = <<>>
            THEN async_show_form(stored, "channel_entry",
                                 [channel_id |-> "channel_id_required"])
            ELSE IF ~(StartsWith(channel_id, <<"U", "C">>) /\ Len(channel_id) = 24)
            THEN async_show_form(stored, "channel_entry",
                                 [channel_id |-> "channel_id_invalid_format"])
            ELSE async_step_pick_implementation(stored)

async_step_channel_entry(flow, user_input) ==
    IF IsNone(user_input) THEN async_show_form(flow, "channel_entry", EmptyMap)
    ELSE LET channel_id == Strip(Get(user_input, "channel_id", TextV(<<>>)).text)
         IN IF channel_id = <<>>
            THEN async_show_form(flow, "channel_entry",
                                 [channel_id |-> "channel_id_required"])
            ELSE IF ~(StartsWith(channel_id, <<"U", "C">>) /\ Len(channel_id) = 24)
            THEN async_show_form(flow, "channel_entry",
                                 [channel_id |-> "channel_id_invalid_format"])
            ELSE async_step_pick_implementation(
                     [flow EXCEPT !.channel_id = TextV(channel_id)])

\* async_step_user that does not look at the existing entries
async_step_user_no_entry_check(flow) ==
    IF ~credential THEN async_abort(flow, "missing_credentials")
    ELSE async_step_channel_entry(flow, NoneV)

async_step_user(flow) ==
    IF Len(entries) > 0 THEN async_abort(flow, "already_configured")
    ELSE IF ~credential THEN async_abort(flow, "missing_credentials")
    ELSE async_step_channel_entry(flow, NoneV)

\* async_step_reauth -> async_step_reauth_confirm
async_step_reauth_confirm(flow, user_input) ==
    IF IsNone(user_input) THEN async_show_form(flow, "reauth_confirm", EmptyMap)
    ELSE async_step_user(flow)

(***************************************************************************)
(* The onboarding steps as actions.                                        *)
(***************************************************************************)
\* the user starts a flow from the integrations page
StartUserFlow(f) ==
    /\ NextFree(f)
    /\ flows' = [flows EXCEPT ![f] = async_step_user([NoFlow EXCEPT !.source = "user"])]
    /\ UNCHANGED <<entries, credential, oauth_flow_states, authorized, poll_vars, setup_vars>>

\* the host starts a reauthentication flow for entry e
StartReauth(f, e) ==
    /\ NextFree(f)
    /\ e \in 1 .. Len(entries)
    /\ \A g \in FlowIds : ~(flows[g].source = "reauth" /\ ~Free(flows[g]))
    /\ flows' = [flows EXCEPT ![f] =
           async_step_reauth_confirm(
               [NoFlow EXCEPT !.source = "reauth", !.reauth_entry = e], NoneV)]
    /\ UNCHANGED <<entries, credential, oauth_flow_states, authorized, poll_vars, setup_vars>>

\* the user confirms the reauth dialog
ReauthConfirm(f) ==
    /\ flows[f].step = "reauth_confirm"
    /\ flows' = [flows EXCEPT ![f] = async_step_reauth_confirm(flows[f], EmptyMap)]
    /\ UNCHANGED <<entries, credential, oauth_flow_states, authorized, poll_vars, setup_vars>>

\* the user submits the channel form
ChannelEntrySubmit(f, text) ==
    /\ flows[f].step = "channel_entry"
    /\ authorized < MaxAuthorize
    /\ LET st == authorized + 1
           flow == async_step_channel_entry(flows[f], [channel_id |-> TextV(text)])
       IN /\ flows' = [flows EXCEPT ![f] = flow]
          /\ IF flow.step = "auth"
             THEN /\ oauth_flow_states' = async_generate_authorize_url(st)
                  /\ authorized' = st
             ELSE UNCHANGED <<oauth_flow_states, authorized>>
    /\ UNCHANGED <<entries, credential, poll_vars, setup_vars>>

\* the administrator registers / deletes the application credential
ImportCredential ==
    /\ ~credential
    /\ credential' = TRUE
    /\ UNCHANGED <<entries, flows, oauth_flow_states, authorized, poll_vars, setup_vars>>

DeleteCredential ==
    /\ credential
    /\ Len(entries) = 0
    /\ credential' = FALSE
    /\ UNCHANGED <<entries, flows, oauth_flow_states, authorized, poll_vars, setup_vars>>

(***************************************************************************)
(* application_credentials.py: async_resolve_external_data                 *)
(***************************************************************************)
Accounts == {"acctA", "acctB"}

\* the tokens of account acct: n = 0 for those an entry was set up with,
\* n = 1 for those a later exchange issues
RefreshTok(acct, n) == [refresh_token_of |-> acct, n |-> n]
AccessTok(acct, n) == [access_token_of |-> acct, n |-> n]

\* the channel an account owns
OwnChannel(acct) == IF acct = "acctA" THEN TextV(ChanA) ELSE TextV(ChanB)

\* what the OAuth callback may carry
ExternalDatas ==
    {[code |-> StrV("4/0Ab")], [state |-> IntV(1)], EmptyMap}
        \cup {[code |-> StrV("4/0Ab"), state |-> IntV(n)] :
                 n \in 1 .. MaxAuthorize + 1}

\* what flow.fetch_token may come back with
TokenCalls ==
    {[kind |-> "Exception"]}
      \cup {[kind |-> "response",
             body |-> [refresh_token |-> RefreshTok(a, 1),
                       access_token |-> AccessTok(a, 1),
                       expires_at |-> IntV(3601)]] : a \in Accounts}
      \cup {[kind |-> "response",
             body |-> [access_token |-> AccessTok("acctA", 1),
                       expires_in |-> IntV(3600)]]}

\* a resolution that exchanges the code without looking the state up; exchanged
\* tells whether flow.fetch_token was called
async_resolve_external_data_any_state(external_data, token_call) ==
    LET code == Get(external_data, "code", NoneV)
        state == Get(external_data, "state", NoneV)
    IN IF IsNone(code) \/ IsNone(state)
       THEN [raised |-> "ValueError: Missing code or state in OAuth callback",
             value |-> NoneV, exchanged |-> FALSE]
       ELSE IF token_call.kind # "response"
       THEN [raised |-> "Exception: fetch_token failed", value |-> NoneV,
             exchanged |-> TRUE]
       ELSE LET token_data == token_call.body
            IN IF IsNone(Get(token_data, "refresh_token", NoneV))
               THEN [raised |-> "ValueError: No refresh token received",
                     value |-> NoneV, exchanged |-> TRUE]
               ELSE [raised |-> "none",
                     exchanged |-> TRUE,
                     value |->
                       [refresh_token |-> token_data.refresh_token,
                        token |-> IF ~IsNone(Get(token_data, "access_token", NoneV))
                                  THEN token_data.access_token
                                  ELSE Get(token_data, "token", NoneV),
                        token_expiry |->
                          IF "expires_at" \in DOMAIN token_data
                          THEN IsoFormat(token_data.expires_at.int)
                          ELSE IF "expires_in" \in DOMAIN token_data
                          THEN IsoFormat(tick + token_data.expires_in.int)
                          ELSE NoneV]]

async_resolve_external_data(external_data, token_call) ==
    LET code == Get(external_data, "code", NoneV)
        state == Get(external_data, "state", NoneV)
    IN IF IsNone(code) \/ IsNone(state)
       THEN [raised |-> "ValueError: Missing code or state in OAuth callback",
             value |-> NoneV, exchanged |-> FALSE]
       ELSE IF state.int \notin oauth_flow_states
       THEN [raised |-> "ValueError: OAuth flow not found", value |-> NoneV,
             exchanged |-> FALSE]
       ELSE IF token_call.kind # "response"
       THEN [raised |-> "Exception: fetch_token failed", value |-> NoneV,
             exchanged |-> TRUE]
       ELSE LET token_data == token_call.body
            IN IF IsNone(Get(token_data, "refresh_token", NoneV))
               THEN [raised |-> "ValueError: No refresh token received",
                     value |-> NoneV, exchanged |-> TRUE]
               ELSE [raised |-> "none",
                     exchanged |-> TRUE,
                     value |->
                       [refresh_token |-> token_data.refresh_token,
                        token |-> IF ~IsNone(Get(token_data, "access_token", NoneV))
                                  THEN token_data.access_token
                                  ELSE Get(token_data, "token", NoneV),
                        token_expiry |->
                          IF "expires_at" \in DOMAIN token_data
                          THEN IsoFormat(token_data.expires_at.int)
                          ELSE IF "expires_in" \in DOMAIN token_data
                          THEN IsoFormat(tick + token_data.expires_in.int)
                          ELSE NoneV]]

(***************************************************************************)
(* config_flow.py: async_oauth_create_entry                                *)
(***************************************************************************)
Titles == {"Title", "Renamed"}

\* what channels().list(part="snippet", id=channel_id).execute may come back
\* with, after credentials.refresh and build
ChannelCalls ==
    {[kind |-> "Exception"],
     [kind |-> "response", body |-> [items |-> <<>>]],
     [kind |-> "response", body |-> [kind |-> "youtube#channelListResponse"]]}
      \cup {[kind |-> "response",
             body |-> [items |-> <<[snippet |-> [title |-> StrV(t)]]>>]] :
                t \in Titles}

\* channel_response.get("items") is truthy
HasItems(call) ==
    /\ call.kind = "response"
    /\ "items" \in DOMAIN call.body
    /\ Len(call.body.items) > 0

\* dict.update
Update(m, u) ==
    [j \in (DOMAIN m) \cup (DOMAIN u) |-> IF j \in DOMAIN u THEN u[j] ELSE m[j]]

\* data_updates that also rewrite the channel title
ReauthDataUpdates_with_title(refresh_token, token, token_expiry_str, channel_title) ==
    [refresh_token |-> refresh_token, token |-> token,
     token_expiry |-> token_expiry_str, channel_title |-> channel_title]

\* the data_updates of the reauth branch
ReauthDataUpdates(refresh_token, token, token_expiry_str, channel_title) ==
    [refresh_token |-> refresh_token, token |-> token,
     token_expiry |-> token_expiry_str]

\* ConfigFlow.async_update_reload_and_abort
async_update_reload_and_abort(flow, e, data_updates) ==
    [flow |-> async_abort(flow, "reauth_successful"),
     entries |-> [entries EXCEPT ![e].data = Update(@, data_updates)]]

\* an entry creation that copies the client credential into the entry data
super_async_oauth_create_entry_with_client(flow, data) ==
    [flow |-> [flow EXCEPT !.step = "done",
                           !.result = [type |-> "create_entry", step_id |-> "",
                                       reason |-> "", errors |-> EmptyMap]],
     entries |-> Append(entries, [unique_id |-> flow.unique_id,
                                  data |-> Update(data, RegisteredCredential),
                                  options |-> EmptyMap])]

\* AbstractOAuth2FlowHandler.async_oauth_create_entry: async_create_entry
super_async_oauth_create_entry(flow, data) ==
    [flow |-> [flow EXCEPT !.step = "done",
                           !.result = [type |-> "create_entry", step_id |-> "",
                                       reason |-> "", errors |-> EmptyMap]],
     entries |-> Append(entries, [unique_id |-> flow.unique_id, data |-> data,
                                  options |-> EmptyMap])]

\* enrichment that stores a default title instead of the validated one
EnrichedData_default_title(data, channel_id, channel_title, refresh_token, token, token_expiry_str) ==
    Update(data,
        [channel_id |-> channel_id,
         channel_title |-> StrV("Unknown"),
         refresh_token |-> refresh_token,
         token |-> token,
         token_expiry |-> token_expiry_str])

\* the data dict enriched with the validated channel and the token fields
EnrichedData(data, channel_id, channel_title, refresh_token, token, token_expiry_str) ==
    Update(data,
        [channel_id |-> channel_id,
         channel_title |-> channel_title,
         refresh_token |-> refresh_token,
         token |-> token,
         token_expiry |-> token_expiry_str])

Aborted(flow, reason) == [flow |-> async_abort(flow, reason), entries |-> entries]

\* The handler awaits the credential registry, the token refresh and the
\* channels().list call; their outcomes are credential and chan_call.
\* AbortFlow raised by the unique-id helpers is an Exception and is caught by
\* the outer "except Exception" (reason oauth_failed).
async_oauth_create_entry(flow, data, chan_call) ==
    LET refresh_token == Get(data, "refresh_token", NoneV)
        token == IF ~IsNone(Get(data, "token", NoneV))
                 THEN data["token"] ELSE Get(data, "access_token", NoneV)
        token_expiry == Get(data, "token_expiry", NoneV)
        token_expiry_str == token_expiry
    IN IF IsNone(refresh_token) THEN Aborted(flow, "oauth_failed")
       ELSE IF ~credential THEN Aborted(flow, "oauth_implementation_unavailable")
       ELSE LET channel_id ==
                    IF flow.source = "reauth"
                    THEN Get(entries[flow.reauth_entry].data, "channel_id", NoneV)
                    ELSE flow.channel_id
                flow1 == [flow EXCEPT !.unique_id = channel_id]
            IN IF IsNone(channel_id) THEN Aborted(flow, "oauth_failed")
               ELSE IF flow.source = "reauth"
               THEN IF entries[flow.reauth_entry].unique_id # flow1.unique_id
                    THEN Aborted(flow1, "oauth_failed")
                    ELSE IF chan_call.kind # "response"
                    THEN Aborted(flow1, "oauth_failed")
                    ELSE IF HasItems(chan_call)
                    THEN async_update_reload_and_abort(flow1, flow.reauth_entry,
                             ReauthDataUpdates(refresh_token, token, token_expiry_str,
                                 chan_call.body.items[1].snippet.title))
                    ELSE Aborted(flow1, "oauth_failed")
               ELSE IF \E i \in 1 .. Len(entries) : entries[i].unique_id = flow1.unique_id
                    THEN Aborted(flow1, "oauth_failed")
                    ELSE IF chan_call.kind # "response"
                    THEN Aborted(flow1, "channel_validation_failed")
                    ELSE IF ~HasItems(chan_call)
                    THEN Aborted(flow1, "channel_not_found")
                    ELSE super_async_oauth_create_entry(flow1,
                             EnrichedData(data, channel_id,
                                 chan_call.body.items[1].snippet.title,
                                 refresh_token, token, token_expiry_str))

\* a callback with the outcome of its token exchange and of its channel
\* query; a call that is not made has the outcome NoCall
CallbackInputs ==
    ExternalDatas \X (TokenCalls \cup {NoCall}) \X (ChannelCalls \cup {NoCall})

\* the token exchange is made for an issued state, the channel query after an
\* exchange that returned a refresh token.  The state is tested for
\* membership only: the latest issued state and the next, unissued one stand
\* for all.
Delivered(external_data, token_call, chan_call) ==
    LET complete == DOMAIN external_data = {"code", "state"}
        issued == complete /\ external_data.state.int \in oauth_flow_states
        tokens == /\ issued
                  /\ token_call.kind = "response"
                  /\ "refresh_token" \in DOMAIN token_call.body
    IN /\ complete => external_data.state.int \in {authorized, authorized + 1}
       /\ (token_call.kind = "none") <=> ~issued
       /\ (chan_call.kind = "none") <=> ~tokens

\* the OAuth callback reaches the flow: AbstractOAuth2FlowHandler.async_step_creation
\* resolves the external data and hands the result to async_oauth_create_entry
OAuthCallback(f, external_data, token_call, chan_call) ==
    /\ flows[f].step = "auth"
    /\ Delivered(external_data, token_call, chan_call)
    /\ LET r == async_resolve_external_data(external_data, token_call)
       IN IF r.raised # "none"
          THEN /\ flows' = [flows EXCEPT ![f] = Raised(flows[f], r.raised)]
               /\ entries' = entries
          ELSE LET out == async_oauth_create_entry(
                              [flows[f] EXCEPT !.oauth_acct =
                                  r.value.refresh_token.refresh_token_of],
                              r.value, chan_call)
               IN /\ flows' = [flows EXCEPT ![f] = out.flow]
                  /\ entries' = out.entries
    /\ UNCHANGED <<credential, oauth_flow_states, authorized, poll_vars, setup_vars>>

(***************************************************************************)
(* Specifications.                                                         *)
(*   Spec            the polling layer of one set-up entry                 *)
(*   SpecFlow        the onboarding and reauthentication flows             *)
(*   SpecOAuthEntry  async_oauth_create_entry on every flow the OAuth      *)
(*                   callback can be delivered to                          *)
(*   SpecSetup       async_setup_entry and async_unload_entry on the       *)
(*                   config entries of an installation                     *)
(***************************************************************************)
InitFlow ==
    /\ entries = <<>>
    /\ credential \in BOOLEAN
    /\ flows = [f \in FlowIds |-> NoFlow]
    /\ oauth_flow_states = {}
    /\ authorized = 0

NextFlow ==
    \/ \E f \in FlowIds : StartUserFlow(f)
    \/ \E f \in FlowIds, e \in 1 .. MaxFlows : StartReauth(f, e)
    \/ \E f \in FlowIds : ReauthConfirm(f)
    \/ \E f \in FlowIds, text \in ChannelInputs : ChannelEntrySubmit(f, text)
    \/ \E f \in FlowIds, in \in CallbackInputs : OAuthCallback(f, in[1], in[2], in[3])
    \/ ImportCredential
    \/ DeleteCredential

\* async_setup_entry has not run for any entry
NotSetUp ==
    /\ hass_data = EmptyMap
    /\ entry_state = <<>>
    /\ sensors = EmptyMap

Init == InitPoll /\ InitFlow /\ credential = TRUE /\ NotSetUp

Next == NextPoll

Spec == Init /\ [][Next]_vars

\* no entry is set up yet: the polling layer rests in its initial state
InitOnboarding == InitPoll /\ InitFlow /\ NotSetUp

SpecFlow == InitOnboarding /\ [][NextFlow]_vars

\* an entry as a finished user flow for channel ch of account acct stores it
StoredEntry(ch, acct) ==
    [unique_id |-> TextV(ch),
     data |-> [channel_id |-> TextV(ch), channel_title |-> StrV("Title"),
               refresh_token |-> RefreshTok(acct, 0),
               token |-> AccessTok(acct, 0), token_expiry |-> IsoFormat(3600)],
     options |-> EmptyMap]

\* a flow waiting in the external OAuth step
AtAuth(source, channel_id, e) ==
    [NoFlow EXCEPT !.source = source, !.step = "auth", !.channel_id = channel_id,
                   !.reauth_entry = e, !.oauth_entered = TRUE,
                   !.result = [type |-> "external", step_id |-> "auth",
                               reason |-> "", errors |-> EmptyMap]]

\* the flows the callback can be delivered to: a user flow that stored a
\* channel id, or a reauthentication flow of an existing entry
AuthFlows ==
    {AtAuth("user", TextV(ch), 0) : ch \in {ChanA, ChanB}}
        \cup {AtAuth("reauth", NoneV, e) : e \in 1 .. Len(entries)}

InitOAuthEntry ==
    /\ credential \in BOOLEAN
    /\ oauth_flow_states = 1 .. MaxAuthorize
    /\ authorized = MaxAuthorize
    /\ entries \in {<<>>, <<StoredEntry(ChanA, "acctA")>>,
                    <<StoredEntry(ChanB, "acctB")>>}
    /\ flows \in [FlowIds -> AuthFlows \cup {NoFlow}]
    /\ flows[1] # NoFlow
    /\ \A f \in FlowIds \ {1} : flows[f].source # "reauth"

NextOAuthEntry ==
    \E f \in FlowIds, in \in CallbackInputs : OAuthCallback(f, in[1], in[2], in[3])

InitHandler == InitPoll /\ InitOAuthEntry /\ NotSetUp

SpecOAuthEntry == InitHandler /\ [][NextOAuthEntry]_vars

(***************************************************************************)
(* __init__.py: async_setup_entry and async_unload_entry.                  *)
(*   The entry states are the host's: a setup that returns False or raises *)
(*   ConfigEntryAuthFailed leaves the entry in setup_error, one whose      *)
(*   first refresh fails with UpdateFailed (ConfigEntryNotReady) in        *)
(*   setup_retry, a refused unload in failed_unload.                       *)
(***************************************************************************)
Pop(m, k) == [j \in (DOMAIN m) \ {k} |-> m[j]]

\* entry.options as the host may hold it; async_setup_entry never reads it
OptionsRecords ==
    {EmptyMap} \cup {Put(EmptyMap, "update_interval_seconds", IntV(n)) : n \in {1800, 7200}}

ConfiguredEntry(ch, acct, options) == [StoredEntry(ch, acct) EXCEPT !.options = options]

\* what the two reads of the first refresh come back with
FirstRefreshCalls == LateCalls30d \X (LateCallsStats \ {NoCall})

\* coordinator.async_config_entry_first_refresh at clock reading t
async_config_entry_first_refresh(call_30d, call_stats, timed_out, t) ==
    IF timed_out THEN _async_update_data_timeout
    ELSE _async_update_data(async_get_all_metrics(call_30d, call_stats, t))

SetState(e, st) == entry_state' = [entry_state EXCEPT ![e] = st]

\* a setup that forwards to the sensor platform before it stores the record
StoreAndForward_forward_first(domain_data, e, entry, record) ==
    [hass_data |-> Put(domain_data, e, record),
     platform |-> sensor_async_setup_entry(domain_data, e, entry)]

\* hass.data[DOMAIN][entry.entry_id] = {...}, then async_forward_entry_setups
StoreAndForward(domain_data, e, entry, record) ==
    LET stored == Put(domain_data, e, record)
    IN [hass_data |-> stored,
        platform |-> sensor_async_setup_entry(stored, e, entry)]

\* what async_setup_entry returns or raises for entry e, and hass.data[DOMAIN]
\* and the entities after it; a first refresh that fails with UpdateFailed
\* leaves async_config_entry_first_refresh as ConfigEntryNotReady
setup_result(e, call_30d, call_stats, timed_out) ==
    LET entry == entries[e]
        refresh_token == entry.data["refresh_token"]
        channel_id == entry.data["channel_id"]
        channel_title == Get(entry.data, "channel_title", StrV("YouTube Channel"))
        access_token == Get(entry.data, "token", NoneV)
        token_expiry == Get(entry.data, "token_expiry", NoneV)
        update_interval == DEFAULT_UPDATE_INTERVAL
        Ends(returned, raised) ==
            [returned |-> returned, raised |-> raised,
             hass_data |-> hass_data, sensors |-> sensors]
        found == async_import_client_credential(credential)
    IN IF IsNone(found) THEN Ends("False", "none")
       ELSE LET client == YouTubeAnalyticsAPI(refresh_token, found.client_id,
                                              found.client_secret, access_token,
                                              token_expiry)
                coordinator == [update_interval |-> update_interval, data |-> NoneV]
                res == async_config_entry_first_refresh(call_30d, call_stats,
                                                        timed_out, tick + 1)
            IN CASE res.raised = "ConfigEntryAuthFailed" ->
                        Ends("none", "ConfigEntryAuthFailed")
                 [] res.raised = "UpdateFailed" ->
                        Ends("none", "ConfigEntryNotReady")
                 [] OTHER ->
                        LET record == [coordinator |-> [coordinator EXCEPT !.data = res.value],
                                       api_client |-> client,
                                       channel_id |-> channel_id,
                                       channel_title |-> channel_title]
                            done == StoreAndForward(hass_data, e, entry, record)
                        IN [returned |-> "True", raised |-> "none",
                            hass_data |-> done.hass_data,
                            sensors |-> IF done.platform.raised = "none"
                                        THEN Put(sensors, e, done.platform.entities)
                                        ELSE sensors]

async_setup_entry(e, call_30d, call_stats, timed_out) ==
    /\ e \in 1 .. Len(entries)
    /\ entry_state[e] \in {"not_loaded", "setup_retry"}
    /\ LET out == setup_result(e, call_30d, call_stats, timed_out)
       IN /\ hass_data' = out.hass_data
          /\ sensors' = out.sensors
          /\ SetState(e, CASE out.returned = "True" -> "loaded"
                           [] out.raised = "ConfigEntryNotReady" -> "setup_retry"
                           [] OTHER -> "setup_error")
    /\ UNCHANGED <<poll_vars, flow_vars>>

\* hass.config_entries.async_unload_platforms removes the entities when it
\* succeeds
async_unload_entry(e, unload_ok) ==
    /\ e \in 1 .. Len(entries)
    /\ entry_state[e] = "loaded"
    /\ IF unload_ok
       THEN /\ hass_data' = Pop(hass_data, e)
            /\ sensors' = Pop(sensors, e)
            /\ SetState(e, "not_loaded")
       ELSE /\ hass_data' = hass_data
            /\ sensors' = sensors
            /\ SetState(e, "failed_unload")
    /\ UNCHANGED <<poll_vars, flow_vars>>

InitSetup ==
    /\ InitPoll
    /\ credential \in BOOLEAN
    /\ flows = [f \in FlowIds |-> NoFlow]
    /\ oauth_flow_states = {}
    /\ authorized = 0
    /\ \E o1 \in OptionsRecords, o2 \in OptionsRecords :
          entries = <<ConfiguredEntry(ChanA, "acctA", o1),
                      ConfiguredEntry(ChanB, "acctB", o2)>>
    /\ hass_data = EmptyMap
    /\ entry_state = [e \in 1 .. Len(entries) |-> "not_loaded"]
    /\ sensors = EmptyMap

NextSetup ==
    \/ \E e \in 1 .. MaxFlows, c \in FirstRefreshCalls, timed_out \in BOOLEAN :
          async_setup_entry(e, c[1], c[2], timed_out)
    \/ \E e \in 1 .. MaxFlows, unload_ok \in BOOLEAN : async_unload_entry(e, unload_ok)
    \/ ImportCredential

SpecSetup == InitSetup /\ [][NextSetup]_vars



(***************************************************************************)
(* Properties of the polling layer (specification Spec).                   *)
(***************************************************************************)
WatchKey == "estimatedMinutesWatched_30d"

\* the call ended in a token refresh error or an HTTP 401
AuthFailure(call) ==
    call.kind = "RefreshError" \/ (call.kind = "HttpError" /\ call.status = 401)

PollCompleted == last_poll.call_30d # NoCall /\ ~last_poll.timed_out

Failed30d == "error" \in DOMAIN async_get_analytics_metrics(last_poll.call_30d)
FailedStats == "error" \in DOMAIN async_get_channel_statistics(last_poll.call_stats)

HasError(m, key, v) == key \in DOMAIN m /\ m[key] = v

\* C1: in every poll tick in which a client call fails with an authentication
\* failure (token refresh error or HTTP 401), the merged result holds
\* "auth_failed" under that source's error key and _async_update_data raises
\* ConfigEntryAuthFailed.
C1_AuthFailureRaisesReauth ==
    /\ (PollCompleted /\ AuthFailure(last_poll.call_30d)) =>
          /\ HasError(last_poll.merged, "error_30d", StrV("auth_failed"))
          /\ last_poll.result.raised = "ConfigEntryAuthFailed"
    /\ (PollCompleted /\ AuthFailure(last_poll.call_stats)) =>
          /\ HasError(last_poll.merged, "error_lifetime", StrV("auth_failed"))
          /\ last_poll.result.raised = "ConfigEntryAuthFailed"

\* every key the source returned is in the merged result with the same value
SourceKept(src, m) == \A k \in DOMAIN src : k \in DOMAIN m /\ m[k] = src[k]

\* C2: when one of the three sources (30-day analytics, channel statistics,
\* recent-videos aggregate) fails in a poll and the others succeed, the merged
\* result has that source's error key and every key of the other sources with
\* the values they returned.
C2_PartialFailureIsolation ==
    LET m == last_poll.merged
        a == async_get_analytics_metrics(last_poll.call_30d)
        c == async_get_channel_statistics(last_poll.call_stats)
    IN /\ (PollCompleted /\ Failed30d /\ ~FailedStats) =>
             /\ HasError(m, "error_30d", a["error"])
             /\ SourceKept(c, m)
             /\ SeqToSet(METRICS_RECENT_VIDEOS) \subseteq DOMAIN m
       /\ (PollCompleted /\ FailedStats /\ ~Failed30d) =>
             /\ HasError(m, "error_lifetime", c["error"])
             /\ SourceKept(a, m)
             /\ SeqToSet(METRICS_RECENT_VIDEOS) \subseteq DOMAIN m

\* the report of the last poll returned every requested metric with a value
Complete30d ==
    /\ last_poll.call_30d.kind = "response"
    /\ "rows" \in DOMAIN last_poll.call_30d.body
    /\ "columnHeaders" \in DOMAIN last_poll.call_30d.body
    /\ last_poll.call_30d.body.columnHeaders = EchoHeaders
    /\ Len(last_poll.call_30d.body.rows) > 0
    /\ Len(last_poll.call_30d.body.rows[1]) = Len(EchoHeaders)
    /\ \A i \in 1 .. Len(EchoHeaders) : ~IsNone(last_poll.call_30d.body.rows[1][i])

\* C3: after a poll in which every source succeeds, every metric key a sensor
\* is created for (METRICS_30D, METRICS_LIFETIME, METRICS_RECENT_VIDEOS) is in
\* the snapshot and its sensor reads a value, not unknown.
C3_EverySensorKeyInSnapshot ==
    (PollCompleted /\ Complete30d /\ ~FailedStats /\ last_update_success) =>
        \A k \in SensorKeys :
            /\ k \in DOMAIN coordinator_data
            /\ ~IsNone(states[k])

\* C4: a sensor whose metric key is absent from the latest snapshot, or maps
\* to null, or that has no snapshot yet, reads None and never 0; a key that
\* holds 0 reads 0.
C4_MissingIsUnknown ==
    \A k \in SensorKeys :
        LET v == native_value(coordinator_data, k)
        IN /\ (Falsy(coordinator_data) \/ k \notin DOMAIN coordinator_data
                  \/ IsNone(coordinator_data[k])) =>
                 (v = NoneV /\ v # IntV(0) /\ v # DecV(0))
           /\ (~Falsy(coordinator_data) /\ k \in DOMAIN coordinator_data
                  /\ coordinator_data[k] = IntV(0)) =>
                 v = (IF k = WatchKey THEN DecV(0) ELSE IntV(0))
           /\ last_update_success => states[k] = v

\* a snapshot with one key holding 0, one holding null and one key absent
C4_Witness ==
    /\ ~Falsy(coordinator_data)
    /\ HasError(coordinator_data, "views_30d", IntV(0))
    /\ states["views_30d"] = IntV(0)
    /\ HasError(coordinator_data, WatchKey, NoneV)
    /\ states[WatchKey] = NoneV
    /\ "subscriber_count_lifetime" \notin DOMAIN coordinator_data
    /\ states["subscriber_count_lifetime"] = NoneV

\* h hundredths is m / 60 rounded to two decimals
IsHoursOf(h, m) == 2 * (60 * h - 100 * m) <= 60 /\ 2 * (100 * m - 60 * h) <= 60

\* C5: when the watch-time key holds m minutes, its sensor reads m / 60
\* rounded to 2 decimals (120 reads 2.0); every other sensor reads the
\* snapshot value unchanged.
C5_WatchTimeInHours ==
    ~Falsy(coordinator_data) =>
        \A k \in SensorKeys \cap DOMAIN coordinator_data :
            LET v == native_value(coordinator_data, k)
                m == coordinator_data[k]
            IN IF k = WatchKey /\ ~IsNone(m)
               THEN /\ DOMAIN v = {"hundredths"}
                    /\ IsHoursOf(v.hundredths, m.int)
                    /\ (m.int = 120 => v = DecV(200))
                    /\ (last_update_success => states[k] = v)
               ELSE v = m

\* 120 minutes read as 2.0 hours next to an unconverted sensor
C5_Witness ==
    /\ ~Falsy(coordinator_data)
    /\ HasError(coordinator_data, WatchKey, IntV(120))
    /\ states[WatchKey] = DecV(200)
    /\ HasError(coordinator_data, "views_30d", IntV(120))
    /\ states["views_30d"] = IntV(120)

(***************************************************************************)
(* Properties of the onboarding flow (SpecFlow, SpecOAuthEntry).           *)
(***************************************************************************)
AbortedWith(flow, reason) ==
    /\ flow.step = "done"
    /\ flow.result.type = "abort"
    /\ flow.result.reason = reason

\* C6: a reauthentication flow, once the user has confirmed the dialog, goes
\* on to the OAuth exchange; it does not end in an abort before the OAuth step
\* was entered.
C6_ReauthReachesOAuth ==
    \A f \in FlowIds :
        (flows[f].source = "reauth" /\ flows[f].result.type = "abort") =>
            flows[f].oauth_entered

TokenFields == {"refresh_token", "token", "token_expiry"}

\* flow f is a reauthentication flow that async_oauth_create_entry finishes
\* in this step
ReauthFinishes(f) ==
    /\ flows[f].source = "reauth"
    /\ flows[f].step = "auth"
    /\ flows'[f].step = "done"

\* C7: when async_oauth_create_entry completes a reauthentication
\* successfully, only refresh_token, token and token_expiry of the existing
\* entry change (to the newly issued ones); channel_id, channel_title and the
\* unique id are unchanged and no entry is added.
C7_ReauthUpdatesOnlyTokens ==
    [][\A f \in FlowIds :
          (ReauthFinishes(f) /\ flows'[f].result.reason = "reauth_successful") =>
              LET e == flows[f].reauth_entry
              IN /\ Len(entries') = Len(entries)
                 /\ \A i \in 1 .. Len(entries) :
                       /\ entries'[i].unique_id = entries[i].unique_id
                       /\ DOMAIN entries'[i].data = DOMAIN entries[i].data
                       /\ \A k \in DOMAIN entries[i].data :
                             (i # e \/ k \notin TokenFields) =>
                                 entries'[i].data[k] = entries[i].data[k]
                 /\ entries'[e].data["refresh_token"].refresh_token_of
                        = flows'[f].oauth_acct
                 /\ entries'[e].data["refresh_token"] # entries[e].data["refresh_token"]
      ]_vars

\* a reauthentication flow ended successfully and its entry holds new tokens
\* next to the channel identity it was created with
C7_Witness ==
    \E f \in FlowIds :
        /\ flows[f].source = "reauth"
        /\ AbortedWith(flows[f], "reauth_successful")
        /\ Len(entries) = 1
        /\ entries[1].data["refresh_token"].n # 0
        /\ entries[1].data["channel_id"] = entries[1].unique_id
        /\ entries[1].data["channel_title"] = StrV("Title")

C9_AtMostOneEntry == Len(entries) <= 1

\* flow slot f starts a user flow in this step
UserFlowStarts(f) ==
    /\ Free(flows[f])
    /\ flows'[f] # flows[f]
    /\ flows'[f].source = "user"

\* C10: a user flow started while an entry exists aborts at its first step
\* with already_configured, one started without a registered application
\* credential aborts with missing_credentials; neither creates an entry nor
\* enters the OAuth step.  Otherwise the flow shows the channel form.
C10_UserFlowFirstStep ==
    [][\A f \in FlowIds :
          UserFlowStarts(f) =>
              /\ entries' = entries
              /\ oauth_flow_states' = oauth_flow_states
              /\ ~flows'[f].oauth_entered
              /\ IF Len(entries) > 0
                 THEN AbortedWith(flows'[f], "already_configured")
                 ELSE IF ~credential
                 THEN AbortedWith(flows'[f], "missing_credentials")
                 ELSE /\ flows'[f].step = "channel_entry"
                      /\ flows'[f].result.type = "form"
                      /\ flows'[f].result.step_id = "channel_entry"
                      /\ flows'[f].result.errors = EmptyMap
      ]_vars

\* one user flow was refused for the missing credential, another one for the
\* entry that a flow in between created from the channel form
C10_Witness ==
    \E f \in FlowIds, g \in FlowIds :
        /\ flows[f].source = "user"
        /\ AbortedWith(flows[f], "missing_credentials")
        /\ flows[g].source = "user"
        /\ AbortedWith(flows[g], "already_configured")
        /\ ~flows[g].oauth_entered
        /\ Len(entries) = 1

\* the token exchange answered without a refresh token
NoRefreshToken(token_call) ==
    token_call.kind = "response" /\ "refresh_token" \notin DOMAIN token_call.body

\* C11: when the authorization-code exchange returns no refresh token, the
\* flow ends in an abort result and no config entry is created or modified;
\* it does not end in an unhandled exception.
C11_NoRefreshTokenAborts ==
    [][\A f \in FlowIds, in \in CallbackInputs :
          (OAuthCallback(f, in[1], in[2], in[3]) /\ NoRefreshToken(in[2])) =>
              /\ flows'[f].step = "done"
              /\ flows'[f].result.type = "abort"
              /\ entries' = entries
      ]_vars

\* the channel query of a user flow was made and returned no item
ChannelNotFound(f, chan_call) ==
    /\ flows[f].source = "user"
    /\ credential
    /\ \A i \in 1 .. Len(entries) : entries[i].unique_id # flows[f].channel_id
    /\ chan_call.kind = "response"
    /\ ~HasItems(chan_call)

\* C12: when the channel validation query returns no item for the entered
\* channel id, the flow re-shows the channel form with a field-level error
\* and stays open; it does not abort.
C12_NotFoundReshowsForm ==
    [][\A f \in FlowIds, in \in CallbackInputs :
          (OAuthCallback(f, in[1], in[2], in[3]) /\ ChannelNotFound(f, in[3])) =>
              /\ flows'[f].step = "channel_entry"
              /\ flows'[f].result.type = "form"
              /\ "channel_id" \in DOMAIN flows'[f].result.errors
              /\ entries' = entries
      ]_vars

\* C13: every step that adds a config entry is an OAuth callback of a flow
\* whose channel query, made with the credential issued by that callback's
\* token exchange, returned an item for the flow's channel id; the entry holds
\* that channel id, the title of that item and the issued refresh token.
C13_EntryHoldsVerifiedChannel ==
    [][Len(entries') > Len(entries) =>
          \E f \in FlowIds, in \in CallbackInputs :
              /\ OAuthCallback(f, in[1], in[2], in[3])
              /\ HasItems(in[3])
              /\ entries' = Append(entries, entries'[Len(entries')])
              /\ LET e == entries'[Len(entries')]
                 IN /\ e.unique_id = flows[f].channel_id
                    /\ e.data["channel_id"] = flows[f].channel_id
                    /\ e.data["channel_title"] = in[3].body.items[1].snippet.title
                    /\ e.data["refresh_token"] = in[2].body.refresh_token
      ]_vars

\* a flow created the entry of its channel under the title the query returned
C13_Witness ==
    \E f \in FlowIds :
        /\ flows[f].result.type = "create_entry"
        /\ Len(entries) >= 1
        /\ entries[Len(entries)].data["channel_id"] = flows[f].channel_id
        /\ entries[Len(entries)].data["channel_title"] = StrV("Renamed")
        /\ entries[Len(entries)].data["refresh_token"].refresh_token_of
               = flows[f].oauth_acct

(***************************************************************************)
(* Properties of the metrics client and the poll outcome (Spec).           *)
(***************************************************************************)
AuthFailed == StrV("auth_failed")

\* C14: each client read returns error = "auth_failed" exactly when its call
\* ended in a token refresh error or an HTTP 401; no other HTTP status, empty
\* response or other exception is reported as auth_failed.
C14_AuthFailedExactly ==
    PollCompleted =>
        /\ HasError(async_get_analytics_metrics(last_poll.call_30d), "error", AuthFailed)
              <=> AuthFailure(last_poll.call_30d)
        /\ HasError(async_get_channel_statistics(last_poll.call_stats), "error", AuthFailed)
              <=> AuthFailure(last_poll.call_stats)

\* a poll in which one read was answered with 401 and the other with 403
C14_Witness ==
    /\ PollCompleted
    /\ last_poll.call_30d = [kind |-> "HttpError", status |-> 401]
    /\ HasError(last_poll.merged, "error_30d", AuthFailed)
    /\ last_poll.call_stats = [kind |-> "HttpError", status |-> 403]
    /\ "error_lifetime" \in DOMAIN last_poll.merged
    /\ last_poll.merged["error_lifetime"] # AuthFailed

\* "http_error_<code>"
HttpErrorName(status) ==
    CASE status = 403 -> StrV("http_error_403")
      [] status = 401 -> StrV("http_error_401")
      [] OTHER -> StrV("http_error_<code>")

\* the error value the failure classification assigns to a failed call
Classified(call) ==
    IF AuthFailure(call) THEN AuthFailed
    ELSE IF call.kind = "HttpError"
    THEN IF call.status >= 500 /\ call.status < 600
         THEN StrV("server_error_5xx") ELSE HttpErrorName(call.status)
    ELSE ErrStr(call)

\* C15: a non-401 HTTP failure of a client read is classified by its status:
\* 5xx gives error = "server_error_5xx", any other status "http_error_<code>";
\* only a non-HTTP failure gives the raw exception message.
C15_HttpErrorsClassified ==
    PollCompleted =>
        /\ last_poll.call_30d \in FailedCalls =>
              HasError(async_get_analytics_metrics(last_poll.call_30d), "error",
                       Classified(last_poll.call_30d))
        /\ last_poll.call_stats \in FailedCalls =>
              HasError(async_get_channel_statistics(last_poll.call_stats), "error",
                       Classified(last_poll.call_stats))

\* the error keys async_get_all_metrics may set
ErrorKeys == {"error", "error_30d", "error_lifetime"}

\* C16: whenever the mapping async_get_all_metrics returned holds an error key
\* whose value is not auth_failed, or is empty, _async_update_data raises
\* UpdateFailed and returns no snapshot.
C16_OtherErrorIsUpdateFailed ==
    LET m == last_poll.merged
    IN (/\ PollCompleted
        /\ \/ DOMAIN m = {}
           \/ \E k \in ErrorKeys \cap DOMAIN m : m[k] # AuthFailed) =>
           /\ last_poll.result.raised = "UpdateFailed"
           /\ IsNone(last_poll.result.value)

\* the channel of the last poll reported no video
NoVideos ==
    /\ ~FailedStats
    /\ async_get_channel_statistics(last_poll.call_stats)["video_count"] = IntV(0)

\* C17: the merged result of every poll holds the recent-videos aggregate
\* (count, total views, total likes, total comments of the 10 latest
\* uploads); for a channel without videos the four values are 0.
C17_RecentVideosInEveryPoll ==
    PollCompleted =>
        /\ \A k \in SeqToSet(METRICS_RECENT_VIDEOS) : k \in DOMAIN last_poll.merged
        /\ NoVideos =>
              \A k \in SeqToSet(METRICS_RECENT_VIDEOS) :
                  HasError(last_poll.merged, k, IntV(0))

\* C18: within every client read, each build of a service object and each
\* query comes after a token refresh of the same read presenting the stored
\* refresh token, and carries the access token that refresh issued: never the
\* access token of the config entry, never one issued for an earlier tick or
\* for the other read.
RefreshedBefore(ops, i) ==
    \E j \in 1 .. i - 1 :
        /\ ops[j].op = "refresh"
        /\ ops[j].call = ops[i].call
        /\ ops[j].token = StoredRefreshToken
        /\ ops[i].token = FreshToken(ops[j].token, tick, ops[j].call)

BuiltBefore(ops, i) ==
    \E j \in 1 .. i - 1 :
        /\ ops[j].op = "build"
        /\ ops[j].call = ops[i].call
        /\ ops[j].api = ops[i].api
        /\ ops[j].token = ops[i].token

C18_RefreshBeforeEveryBuild ==
    LET ops == last_poll.ops
    IN \A i \in 1 .. Len(ops) :
          /\ ops[i].op \in {"build", "query"} =>
                /\ RefreshedBefore(ops, i)
                /\ ops[i].token # StoredAccessToken
                /\ \A t \in 0 .. tick - 1, c \in {"30d", "lifetime"} :
                      ops[i].token # FreshToken(StoredRefreshToken, t, c)
                /\ \A k \in 1 .. Len(ops) :
                      (ops[k].op = "build" /\ ops[k].call # ops[i].call) =>
                          ops[k].token # ops[i].token
          /\ ops[i].op = "query" => BuiltBefore(ops, i)

C18_Witness ==
    /\ tick = 2
    /\ ~last_poll.timed_out
    /\ last_poll.call_30d.kind = "response"
    /\ last_poll.call_stats.kind = "HttpError"
    /\ Len(last_poll.ops) = 6
    /\ {last_poll.ops[i].op : i \in 1 .. 6} = {"refresh", "build", "query"}

\* C19: a poll whose async_get_all_metrics does not return within the timeout
\* ends with UpdateFailed, never with ConfigEntryAuthFailed and never with a
\* returned snapshot; whatever the reads in flight come back with afterwards,
\* coordinator.data stays what it was before the tick.
C19_TimeoutIsUpdateFailed ==
    [][(tick' = tick + 1 /\ last_poll'.timed_out) =>
          /\ last_poll'.result.raised = "UpdateFailed"
          /\ IsNone(last_poll'.result.value)
          /\ IsNone(last_poll'.merged)
          /\ coordinator_data' = coordinator_data
          /\ ~last_update_success' ]_vars

C19_Witness ==
    /\ tick = 2
    /\ last_poll.timed_out
    /\ last_poll.call_30d.kind = "response"
    /\ last_poll.call_stats.kind = "response"
    /\ last_poll.result.raised = "UpdateFailed"
    /\ ~Falsy(coordinator_data)
    /\ coordinator_data["last_updated"] = IsoFormat(1)
    /\ "views_30d" \in DOMAIN coordinator_data
    /\ coordinator_data["views_30d"] # IntV(120)

(***************************************************************************)
(* Properties of the setup layer (specification SpecSetup).                *)
(***************************************************************************)
Clamp(x, lo, hi) == IF x < lo THEN lo ELSE IF x > hi THEN hi ELSE x

\* candidate values of the configured minimum and maximum, in seconds
IntervalLimits == {60, 1800, 3600, 7200, 86400}

\* C20: the interval every coordinator is created with is the entry's
\* update_interval_seconds option clamped to the configured minimum and
\* maximum (some lo < hi, the same for every entry), and 3600 seconds for an
\* entry with no interval configured.
C20_IntervalFromOptions ==
    \E lo \in IntervalLimits, hi \in IntervalLimits :
        /\ lo < hi
        /\ \A e \in DOMAIN hass_data :
              LET options == entries[e].options
                  interval == hass_data[e].coordinator.update_interval
              IN IF "update_interval_seconds" \in DOMAIN options
                 THEN interval = Clamp(options["update_interval_seconds"].int, lo, hi)
                 ELSE interval = 3600

ClientKeys == {"client_id", "client_secret"}

\* C22: no entry the flow handler created or updated holds client_id or
\* client_secret in its data; async_setup_entry of any such entry takes both
\* from the credential registry at that moment: with none registered it
\* returns False and stores nothing, and a stored API client holds the
\* registered client id and secret.
C22_ClientSecretsStayInRegistry ==
    \A e \in 1 .. Len(entries) :
        /\ (DOMAIN entries[e].data) \cap ClientKeys = {}
        /\ \A c \in FirstRefreshCalls, timed_out \in BOOLEAN :
              LET out == setup_result(e, c[1], c[2], timed_out)
              IN /\ ~credential =>
                       /\ out.returned = "False"
                       /\ out.hass_data = hass_data
                       /\ out.sensors = sensors
                 /\ out.returned = "True" =>
                       /\ credential
                       /\ out.hass_data[e].api_client._client_id =
                             RegisteredCredential.client_id
                       /\ out.hass_data[e].api_client._client_secret =
                             RegisteredCredential.client_secret

\* a user flow has created an entry and a reauthentication has updated one
C22_Witness ==
    /\ credential
    /\ Len(entries) = 2
    /\ entries[1].data["refresh_token"] = RefreshTok("acctB", 1)
    /\ flows[1].result.type = "abort"
    /\ flows[1].result.reason = "reauth_successful"
    /\ flows[2].result.type = "create_entry"
    /\ \E c \in FirstRefreshCalls : setup_result(2, c[1], c[2], FALSE).returned = "True"

HasRow(call) ==
    /\ call.kind = "response"
    /\ "rows" \in DOMAIN call.body
    /\ Len(call.body.rows) > 0

HeaderKey(headers, i) ==
    IF "name" \in DOMAIN headers[i] THEN headers[i].name ELSE MetricIndexName(i - 1)

C24_ValuesAlignedWithHeaders ==
    HasRow(last_poll.call_30d) =>
        LET headers == Get(last_poll.call_30d.body, "columnHeaders", <<>>)
            row == last_poll.call_30d.body.rows[1]
            result == async_get_analytics_metrics(last_poll.call_30d)
        IN /\ \A i \in 1 .. Len(headers) :
                 /\ HeaderKey(headers, i) \in DOMAIN result
                 /\ result[HeaderKey(headers, i)] =
                       IF i <= Len(row) THEN row[i] ELSE NoneV
           /\ DOMAIN result = {HeaderKey(headers, i) : i \in 1 .. Len(headers)}
           /\ \A k \in SeqToSet(METRICS_30D) :
                 k \in DOMAIN result => \E i \in 1 .. Len(headers) : headers[i].name = k

\* two headers came back for twelve requested metrics, with a row of one value
C24_Witness ==
    /\ HasRow(last_poll.call_30d)
    /\ ~last_poll.timed_out
    /\ "columnHeaders" \in DOMAIN last_poll.call_30d.body
    /\ Len(last_poll.call_30d.body.columnHeaders) = 2
    /\ Len(last_poll.call_30d.body.rows[1]) = 1
    /\ {"views_30d", "estimatedMinutesWatched_30d"} \subseteq DOMAIN last_poll.merged
    /\ last_poll.merged["views_30d"] = IntV(120)
    /\ IsNone(last_poll.merged["estimatedMinutesWatched_30d"])
    /\ "likes_30d" \notin DOMAIN last_poll.merged

\* C25: whatever the token refresh and the HTTP calls of a poll do, both
\* client reads and async_get_all_metrics return a mapping (no exception
\* leaves them), and the poll ends in exactly one of three ways: a non-empty
\* mapping is returned, ConfigEntryAuthFailed is raised, or UpdateFailed is
\* raised.
Returns(m) == ~IsNone(m) /\ "raised" \notin DOMAIN m

C25_NoOtherExceptionEscapes ==
    last_poll.call_30d # NoCall =>
        /\ Returns(async_get_analytics_metrics(last_poll.call_30d))
        /\ last_poll.call_stats # NoCall =>
              Returns(async_get_channel_statistics(last_poll.call_stats))
        /\ ~last_poll.timed_out => Returns(last_poll.merged)
        /\ \/ /\ last_poll.result.raised = "none"
              /\ ~Falsy(last_poll.result.value)
              /\ Returns(last_poll.result.value)
           \/ /\ last_poll.result.raised \in {"ConfigEntryAuthFailed", "UpdateFailed"}
              /\ IsNone(last_poll.result.value)

\* the analytics read met an arbitrary exception and the statistics read a
\* counter that int() rejects
C25_Witness ==
    /\ PollCompleted
    /\ last_poll.call_30d = [kind |-> "Exception"]
    /\ last_poll.call_stats.kind = "response"
    /\ HasError(last_poll.merged, "error_lifetime", StrV("invalid literal for int()"))
    /\ HasError(last_poll.merged, "error_30d", StrV("Exception: connection reset"))
    /\ last_poll.result.raised = "none"

\* C26: a poll in which both sources fail with a non-authentication error, so
\* that the merged result holds no metric value, raises UpdateFailed and does
\* not become coordinator.data.
NonAuthFailure(result) == "error" \in DOMAIN result /\ result["error"] # AuthFailed

C26_AllSourcesFailedIsUpdateFailed ==
    (/\ PollCompleted
     /\ NonAuthFailure(async_get_analytics_metrics(last_poll.call_30d))
     /\ NonAuthFailure(async_get_channel_statistics(last_poll.call_stats))) =>
        /\ last_poll.result.raised = "UpdateFailed"
        /\ coordinator_data # last_poll.merged

(***************************************************************************)
(* Further properties of the flows (specification SpecFlow).               *)
(***************************************************************************)
\* C27: a submission of the channel form enters the OAuth step, and changes
\* the flow's stored channel id, only when the typed id, trimmed, starts with
\* "UC" and has 24 characters, and then stores the trimmed id; an empty or
\* malformed id shows the channel form again with the field error
\* channel_id_required or channel_id_invalid_format, leaves the flow open,
\* the stored channel id unchanged and no authorization started.
WellFormed(channel_id) ==
    /\ Len(channel_id) = 24
    /\ channel_id[1] = "U"
    /\ channel_id[2] = "C"

C27_ChannelFormValidates ==
    [][\A f \in FlowIds, text \in ChannelInputs :
          ChannelEntrySubmit(f, text) =>
              LET typed == Strip(text)
              IN /\ flows'[f].step = "auth" =>
                       /\ WellFormed(typed)
                       /\ flows'[f].channel_id = TextV(typed)
                 /\ flows'[f].channel_id # flows[f].channel_id => WellFormed(typed)
                 /\ ~WellFormed(typed) =>
                       /\ flows'[f].step = "channel_entry"
                       /\ flows'[f].result.type = "form"
                       /\ flows'[f].result.step_id = "channel_entry"
                       /\ flows'[f].result.errors =
                             [channel_id |-> IF typed = <<>> THEN "channel_id_required"
                                             ELSE "channel_id_invalid_format"]
                       /\ flows'[f].channel_id = flows[f].channel_id
                       /\ oauth_flow_states' = oauth_flow_states ]_vars

\* one flow was sent back to the form for a malformed id while another one,
\* given a padded well-formed id, waits in the OAuth step with the trimmed id
C27_Witness ==
    \E f \in FlowIds, g \in FlowIds :
        /\ flows[f].step = "channel_entry"
        /\ flows[f].result.errors = [channel_id |-> "channel_id_invalid_format"]
        /\ IsNone(flows[f].channel_id)
        /\ flows[g].step = "auth"
        /\ flows[g].channel_id = TextV(ChanA)

(***************************************************************************)
(* Properties of the merged result (specification Spec).                   *)
(***************************************************************************)
\* C28: the mapping async_get_all_metrics returns has no top-level error key
\* and holds last_updated; it holds error_30d exactly when the analytics read
\* failed, and then no key of the analytics report, otherwise exactly the
\* keys of the returned headers; it holds error_lifetime exactly when the
\* statistics read failed, and then none of the four lifetime keys, otherwise
\* all four.
LifetimeDataKeys == {"subscriber_count", "video_count", "view_count", "channel_title"}

ReportKeys(m) ==
    (DOMAIN m) \ (LifetimeDataKeys \cup {"error_30d", "error_lifetime", "last_updated"})

C28_ErrorOrDataPerSource ==
    PollCompleted =>
        LET m == last_poll.merged
            headers == IF HasRow(last_poll.call_30d)
                       THEN Get(last_poll.call_30d.body, "columnHeaders", <<>>)
                       ELSE <<>>
        IN /\ "error" \notin DOMAIN m
           /\ "last_updated" \in DOMAIN m
           /\ "error_30d" \in DOMAIN m <=> ~HasRow(last_poll.call_30d)
           /\ "error_30d" \in DOMAIN m => ReportKeys(m) = {}
           /\ "error_30d" \notin DOMAIN m =>
                 ReportKeys(m) = {HeaderKey(headers, i) : i \in 1 .. Len(headers)}
           /\ "error_lifetime" \in DOMAIN m => LifetimeDataKeys \cap DOMAIN m = {}
           /\ "error_lifetime" \notin DOMAIN m =>
                 /\ LifetimeDataKeys \subseteq DOMAIN m
                 /\ HasItems(last_poll.call_stats)

\* the analytics read failed with an authentication error, whose detail is
\* not carried over, and the statistics read returned a channel
C28_Witness ==
    /\ PollCompleted
    /\ last_poll.call_30d = [kind |-> "RefreshError"]
    /\ DOMAIN last_poll.merged =
          LifetimeDataKeys \cup {"error_30d", "last_updated"}
    /\ last_poll.merged["subscriber_count"] = IntV(MaxCount)

(***************************************************************************)
(* Further properties of the setup layer (specification SpecSetup).        *)
(***************************************************************************)
\* C29: hass.data[DOMAIN] holds a record for an entry exactly when a setup of
\* it passed the first refresh and no unload with unload_ok true followed.
\* A setup without a registered credential returns False, one whose first
\* refresh raises ConfigEntryAuthFailed raises it again, and both store
\* nothing and create no sensors; a setup that passes stores the entry's
\* coordinator, API client, channel id and title, and the sensor platform,
\* set up after that, finds the record and creates its sensors; an unload
\* removes the record when unload_ok is true and keeps it otherwise; nothing
\* else changes hass.data[DOMAIN].
HoldsRecord(e) == entry_state[e] \in {"loaded", "failed_unload"}

SetupStep(e, call_30d, call_stats, timed_out) ==
    LET res == async_config_entry_first_refresh(call_30d, call_stats, timed_out,
                                                tick + 1)
        out == setup_result(e, call_30d, call_stats, timed_out)
        passed == credential /\ res.raised = "none"
    IN /\ ~credential => out.returned = "False"
       /\ (credential /\ res.raised = "ConfigEntryAuthFailed") =>
             out.raised = "ConfigEntryAuthFailed"
       /\ ~passed =>
             /\ out.returned # "True"
             /\ hass_data' = hass_data
             /\ sensors' = sensors
       /\ passed =>
             /\ out.returned = "True"
             /\ DOMAIN hass_data' = (DOMAIN hass_data) \cup {e}
             /\ DOMAIN hass_data'[e] =
                   {"coordinator", "api_client", "channel_id", "channel_title"}
             /\ hass_data'[e].channel_id = entries[e].data["channel_id"]
             /\ hass_data'[e].channel_title = entries[e].data["channel_title"]
             /\ hass_data'[e].coordinator.data = res.value
             /\ hass_data'[e].api_client._refresh_token = entries[e].data["refresh_token"]
             /\ \A o \in DOMAIN hass_data : hass_data'[o] = hass_data[o]
             /\ e \in DOMAIN sensors'
             /\ Len(sensors'[e]) = Cardinality(SensorKeys)

UnloadStep(e, unload_ok) ==
    IF unload_ok
    THEN /\ DOMAIN hass_data' = (DOMAIN hass_data) \ {e}
         /\ \A o \in DOMAIN hass_data' : hass_data'[o] = hass_data[o]
         /\ e \notin DOMAIN sensors'
    ELSE /\ hass_data' = hass_data
         /\ sensors' = sensors

C29_RecordIffSetUp ==
    [][/\ \A e \in 1 .. Len(entries), c \in FirstRefreshCalls, timed_out \in BOOLEAN :
             async_setup_entry(e, c[1], c[2], timed_out) =>
                 SetupStep(e, c[1], c[2], timed_out)
       /\ \A e \in 1 .. Len(entries), unload_ok \in BOOLEAN :
             async_unload_entry(e, unload_ok) => UnloadStep(e, unload_ok)
       /\ (\A e \in 1 .. Len(entries) :
              /\ \A c \in FirstRefreshCalls, timed_out \in BOOLEAN :
                    ~async_setup_entry(e, c[1], c[2], timed_out)
              /\ \A unload_ok \in BOOLEAN : ~async_unload_entry(e, unload_ok))
             => hass_data' = hass_data
       /\ DOMAIN hass_data' = {e \in 1 .. Len(entries) : HoldsRecord(e)'}
       /\ DOMAIN sensors' = DOMAIN hass_data' ]_vars

\* the first entry was set up and its unload refused; the second was set up
\* while no credential was registered
C29_Witness ==
    /\ credential
    /\ entry_state = <<"failed_unload", "setup_error">>
    /\ DOMAIN hass_data = {1}
    /\ DOMAIN sensors = {1}
    /\ hass_data[1].channel_id = TextV(ChanA)

(***************************************************************************)
(* Properties of the OAuth callback (specification SpecFlow).              *)
(***************************************************************************)
\* C30: in every reachable state, async_resolve_external_data answers a
\* callback without code, without state, or with a state for which no earlier
\* async_generate_authorize_url stored a flow object with a ValueError raised
\* before flow.fetch_token, and returns no tokens, whatever the token endpoint
\* would have answered; so flow.fetch_token is called only for a callback that
\* carries a code and an issued state.
Issued(external_data) ==
    /\ {"code", "state"} \subseteq DOMAIN external_data
    /\ external_data.state.int \in 1 .. authorized

C30_ExchangeOnlyForIssuedState ==
    \A x \in ExternalDatas, t \in TokenCalls \cup {NoCall} :
        LET r == async_resolve_external_data(x, t)
        IN /\ r.exchanged => Issued(x)
           /\ ~Issued(x) =>
                 /\ r.raised \in
                       {"ValueError: Missing code or state in OAuth callback",
                        "ValueError: OAuth flow not found"}
                 /\ ~r.exchanged
                 /\ IsNone(r.value)

\* a callback with a state that no authorize URL carried was turned away
\* after one that was issued had led to an entry
C30_Witness ==
    /\ authorized >= 1
    /\ Len(entries) = 1
    /\ \E f \in FlowIds :
          /\ flows[f].step = "auth"
          /\ flows[f].result.type = "exception"
          /\ flows[f].result.reason = "ValueError: OAuth flow not found"

=============================================================================
